---- MODULE Spec2Model ----
(***************************************************************************)
(* yml2tex: a YAML description of a presentation is turned into a LaTeX    *)
(* Beamer document (src/yml2tex/__init__.py, Python 2).                    *)
(*                                                                         *)
(* Python text is modelled by TLA+ strings (Len, SubSeq and \o work on     *)
(* them character by character).  A Python object that can take several    *)
(* shapes (the content of a frame, an item of a list) is a record          *)
(* [t |-> <type>, v |-> <value>]:                                          *)
(*    t = "str"    v a string                                              *)
(*    t = "list"   v the sequence of the list's elements                   *)
(*    t = "tuple"  v the sequence of the tuple's elements (a loader pair)  *)
(*    t = "int"    v an integer                                            *)
(*    t = "bool"   v a boolean                                             *)
(*    t = "none"   v = <<>>                                                *)
(* A call that may raise returns [ok |-> TRUE, out |-> text] or            *)
(* [ok |-> FALSE, exc |-> <exception class>].                              *)
(***************************************************************************)
EXTENDS Integers, Sequences, FiniteSets, TLC

VARIABLES
    pc,            \* position of the running call
    list_pause,    \* global_options.list_pause
    pygments,      \* whether "from pygments import ..." succeeds
    files,         \* file name -> state of the file beside the yml file
    text,          \* _escape_output: the argument
    letterIdx,     \* _escape_output: position of the for loop in text
    outList,       \* _escape_output: the list out
    escaped,       \* _escape_output: the returned text
    items,         \* itemize / frame: the argument items
    title,         \* frame: the argument title
    dictOrder,     \* image: the iteration order of dict(options)
    result,        \* itemize / frame: what the call returned or raised
    argv,          \* main: sys.argv[1:]
    loaded,        \* main: what yaml.load returns for the source file
    doc,           \* main: the variable doc
    metas,         \* main: the variable metas
    out,           \* main: the variable out
    secIter,       \* main: iterator of "for sections, doc in doc"
    subIter,       \* main: iterator of "for subsections, doc in doc"
    frmIter,       \* main: iterator of "for frames, items in doc"
    stdout,        \* text written to standard output
    stderr,        \* text written to the diagnostic stream
    exc            \* how the process ended: exit status or exception

envVars  == <<list_pause, pygments, files>>
escVars  == <<text, letterIdx, outList, escaped>>
callVars == <<items, title, dictOrder, result>>
mainVars == <<argv, loaded, doc, metas, out, secIter, subIter, frmIter, stdout, exc>>
vars     == <<pc, envVars, escVars, callVars, mainVars, stderr>>

-----------------------------------------------------------------------------
(* Python values *)

Str(s)    == [t |-> "str",   v |-> s]
List(s)   == [t |-> "list",  v |-> s]
Tuple(s)  == [t |-> "tuple", v |-> s]
PyInt(n)  == [t |-> "int",   v |-> n]
Bool(b)   == [t |-> "bool",  v |-> b]
None      == [t |-> "none",  v |-> <<>>]
Pair(a, b) == Tuple(<<a, b>>)

(* what a call gives: the text it returns, or the exception it raises; err
   is what it wrote to sys.stderr *)
Ok(s)     == [ok |-> TRUE,  out |-> s,  exc |-> "", err |-> ""]
Raise(e)  == [ok |-> FALSE, out |-> "", exc |-> e,  err |-> ""]

Char(s, i) == SubSeq(s, i, i)

StartsWith(s, p) == Len(s) >= Len(p) /\ SubSeq(s, 1, Len(p)) = p

RECURSIVE Join(_)
Join(seq) == IF seq = <<>> THEN "" ELSE Head(seq) \o Join(Tail(seq))

RECURSIVE JoinWith(_, _)
JoinWith(sep, seq) ==
    IF seq = <<>> THEN ""
    ELSE IF Len(seq) = 1 THEN seq[1]
    ELSE seq[1] \o sep \o JoinWith(sep, Tail(seq))

(* s.split(' '): the fields between single spaces, empty fields kept *)
RECURSIVE SplitFrom(_, _, _)
SplitFrom(s, i, field) ==
    IF i > Len(s) THEN <<field>>
    ELSE IF Char(s, i) = " " THEN <<field>> \o SplitFrom(s, i + 1, "")
    ELSE SplitFrom(s, i + 1, field \o Char(s, i))

Split(s) == SplitFrom(s, 1, "")

-----------------------------------------------------------------------------
(* _escape_output *)

DicKeys == {"&", "$", "%", "#", "_", "{", "}", "[", "]", "<", ">", "|", "^"}

DicBracketTypo ==
    [k \in DicKeys |->
        CASE k = "&" -> "\\&"
          [] k = "$" -> "\\$"
          [] k = "%" -> "\\%"
          [] k = "#" -> "\\#"
          [] k = "_" -> "\\_"
          [] k = "{" -> "\\{"
          [] k = "}" -> "\\}"
          [] k = "[" -> "\\([\\)"
          [] k = "]" -> "\\([\\)"
          [] k = "<" -> "\\textless "
          [] k = ">" -> "\\textgreater "
          [] k = "|" -> "\\textbar~"
          [] k = "^" -> "\\^{}"]

Dic ==
    [k \in DicKeys |->
        CASE k = "&" -> "\\&"
          [] k = "$" -> "\\$"
          [] k = "%" -> "\\%"
          [] k = "#" -> "\\#"
          [] k = "_" -> "\\_"
          [] k = "{" -> "\\{"
          [] k = "}" -> "\\}"
          [] k = "[" -> "\\([\\)"
          [] k = "]" -> "\\(]\\)"
          [] k = "<" -> "\\textless "
          [] k = ">" -> "\\textgreater "
          [] k = "|" -> "\\textbar~"
          [] k = "^" -> "\\^{}"]

(* dic.get(letter, letter), with the commented-out backslash entry active *)
EscapeLetterBackslash(letter) ==
    IF letter = "\\" THEN "\\textbackslash~"
    ELSE IF letter \in DOMAIN Dic THEN Dic[letter] ELSE letter

(* dic.get(letter, letter) *)
EscapeLetter(letter) ==
    IF letter \in DOMAIN Dic THEN Dic[letter] ELSE letter

(* the whole call on a str: the loop over the letters, then "".join(out) *)
EscapeText(s) == Join([i \in 1..Len(s) |-> EscapeLetter(Char(s, i))])

-----------------------------------------------------------------------------
(* Values of the variables a specification does not use *)

IdleEnv  == list_pause = TRUE /\ pygments = FALSE /\ files = <<>>
IdleEsc  == text = "" /\ letterIdx = 0 /\ outList = <<>> /\ escaped = ""
IdleCall == items = None /\ title = "" /\ dictOrder = <<>> /\ result = None
IdleMain ==
    /\ argv = <<>> /\ loaded = None /\ doc = None /\ metas = <<>> /\ out = ""
    /\ secIter = [seq |-> <<>>, idx |-> 1]
    /\ subIter = [seq |-> <<>>, idx |-> 1]
    /\ frmIter = [seq |-> <<>>, idx |-> 1]
    /\ stdout = "" /\ exc = ""

-----------------------------------------------------------------------------
(* SpecEscape: _escape_output run on one text, a letter per step *)

MaxTextLen == 2

(* every character of the table, the backslash, and characters outside the
   table: a letter, a space, the tilde.  A non-ASCII character reaches the
   loop as bytes outside the table and is copied as they are. *)
EscapeAlphabet == DicKeys \cup {"\\", "a", " ", "~"}

RECURSIVE Texts(_, _)
Texts(alphabet, n) ==
    IF n = 0 THEN {""}
    ELSE LET shorter == Texts(alphabet, n - 1)
         IN  shorter \cup {s \o c : s \in shorter, c \in alphabet}

(* arbitrary short texts, and texts that already are LaTeX: the escaped
   form of a short text given as input again *)
EscapeInputs ==
    LET short == Texts(EscapeAlphabet, MaxTextLen)
    IN  short \cup {EscapeText(s) : s \in short}

InitEscape ==
    /\ pc = "escape"
    /\ text \in EscapeInputs
    /\ letterIdx = 1
    /\ outList = <<>>
    /\ escaped = ""
    /\ IdleEnv /\ IdleCall /\ IdleMain /\ stderr = ""

(* for letter in text: out.append(dic.get(letter, letter)) *)
EscapeLoop ==
    /\ pc = "escape"
    /\ letterIdx <= Len(text)
    /\ outList' = Append(outList, EscapeLetter(Char(text, letterIdx)))
    /\ letterIdx' = letterIdx + 1
    /\ UNCHANGED <<pc, text, escaped, envVars, callVars, mainVars, stderr>>

(* text = "".join(out); return text *)
EscapeReturn ==
    /\ pc = "escape"
    /\ letterIdx > Len(text)
    /\ escaped' = Join(outList)
    /\ pc' = "escaped"
    /\ UNCHANGED <<text, letterIdx, outList, envVars, callVars, mainVars, stderr>>

NextEscape == EscapeLoop \/ EscapeReturn

SpecEscape == InitEscape /\ [][NextEscape]_vars

(* The substitution table as the documentation of the escaper states it *)
BackslashSelf == {"&", "$", "%", "#", "_", "{", "}"}

Substitute(c) ==
    IF c \in BackslashSelf THEN "\\" \o c
    ELSE IF c = "[" THEN "\\([\\)"
    ELSE IF c = "]" THEN "\\(]\\)"
    ELSE IF c = "<" THEN "\\textless "
    ELSE IF c = ">" THEN "\\textgreater "
    ELSE IF c = "|" THEN "\\textbar~"
    ELSE IF c = "^" THEN "\\^{}"
    ELSE c

Reserved == BackslashSelf \cup {"[", "]", "<", ">", "|", "^"}

RECURSIVE SubstituteAll(_, _)
SubstituteAll(s, i) ==
    IF i > Len(s) THEN "" ELSE Substitute(Char(s, i)) \o SubstituteAll(s, i + 1)

MatchesAt(s, i, piece) ==
    i + Len(piece) - 1 <= Len(s) /\ SubSeq(s, i, i + Len(piece) - 1) = piece

(* the substitutions reversed: an escape sequence found in s is turned
   back into its reserved character, any other character is kept *)
RECURSIVE Reverse(_, _)
Reverse(s, i) ==
    IF i > Len(s) THEN ""
    ELSE IF \E c \in Reserved : MatchesAt(s, i, Substitute(c))
         THEN LET c == CHOOSE r \in Reserved : MatchesAt(s, i, Substitute(r))
              IN  c \o Reverse(s, i + Len(Substitute(c)))
         ELSE Char(s, i) \o Reverse(s, i + 1)

HasBackslash(s) == \E i \in 1..Len(s) : Char(s, i) = "\\"

HasReserved(s) == \E i \in 1..Len(s) : Char(s, i) \in Reserved

(* C1: the returned text is the in-order concatenation of the substitution
   of each character of the input: a reserved character gives its escape
   sequence once, any other character (the backslash too) is copied, and
   nothing inserted is escaped again. *)
C1_EscapePerCharacter ==
    pc = "escaped" => escaped = SubstituteAll(text, 1)

(* C1 witness: a text with a reserved character, a backslash and a
   character of an earlier escape sequence has been escaped. *)
C1_Witness ==
    /\ pc = "escaped"
    /\ text = "\\&"
    /\ escaped = "\\\\&"

(* C2 as stated: reversing the substitutions on the returned text gives
   back the input, whatever the input. *)
C2_ReverseRecoversAnyText ==
    pc = "escaped" => Reverse(escaped, 1) = text

(* C2 amended: reversing the substitutions on the returned text gives back
   the input when the input holds no backslash, so the escaper is injective
   on texts without a backslash. *)
C2_ReverseRecoversBackslashFreeText ==
    (pc = "escaped" /\ ~HasBackslash(text)) => Reverse(escaped, 1) = text

(* C2 witness: a backslash-free text with two reserved characters has been
   escaped. *)
C2_Witness ==
    /\ pc = "escaped"
    /\ text = "[]"
    /\ escaped = "\\([\\)\\(]\\)"

-----------------------------------------------------------------------------
(* Python operations on values of any type *)

IsSeq(x) == x.t \in {"list", "tuple"}

(* bool(x) *)
Truthy(x) ==
    CASE x.t = "str"  -> x.v # ""
      [] IsSeq(x)     -> x.v # <<>>
      [] x.t = "int"  -> x.v # 0
      [] x.t = "bool" -> x.v
      [] OTHER        -> FALSE

(* "for e in x" succeeds on a str (its characters), a list and a tuple *)
Iterable(x) == x.t = "str" \/ IsSeq(x)

Elements(x) ==
    IF x.t = "str" THEN [i \in 1..Len(x.v) |-> Str(Char(x.v, i))] ELSE x.v

(* x[i], i counted from 0: "value", "IndexError" or "TypeError" *)
IndexOutcome(x, i) ==
    IF ~Iterable(x) THEN "TypeError"
    ELSE IF i >= Len(Elements(x)) THEN "IndexError"
    ELSE "value"

Index(x, i) == Elements(x)[i + 1]

(* repr() of a str without non-ASCII characters *)
RECURSIVE ReprChars(_, _, _)
ReprChars(s, i, quote) ==
    IF i > Len(s) THEN ""
    ELSE LET c == Char(s, i)
             e == IF c = "\\" THEN "\\\\"
                  ELSE IF c = "\n" THEN "\\n"
                  ELSE IF c = "\t" THEN "\\t"
                  ELSE IF c = quote THEN "\\" \o c
                  ELSE c
         IN  e \o ReprChars(s, i + 1, quote)

HasChar(s, c) == \E i \in 1..Len(s) : Char(s, i) = c

ReprStr(s) ==
    LET quote == IF HasChar(s, "'") /\ ~HasChar(s, "\"") THEN "\"" ELSE "'"
    IN  quote \o ReprChars(s, 1, quote) \o quote

RECURSIVE Repr(_)
Repr(x) ==
    CASE x.t = "str"   -> ReprStr(x.v)
      [] x.t = "int"   -> ToString(x.v)
      [] x.t = "bool"  -> IF x.v THEN "True" ELSE "False"
      [] x.t = "none"  -> "None"
      [] x.t = "list"  ->
           "[" \o JoinWith(", ", [i \in 1..Len(x.v) |-> Repr(x.v[i])]) \o "]"
      [] x.t = "tuple" ->
           "(" \o JoinWith(", ", [i \in 1..Len(x.v) |-> Repr(x.v[i])])
               \o (IF Len(x.v) = 1 THEN "," ELSE "") \o ")"

(* "%s" % x *)
PyStr(x) == IF x.t = "str" THEN x.v ELSE Repr(x)

(* _escape_output(text) for an argument of any type.  The loop runs over a
   str, a list or a tuple; dic.get raises TypeError on an unhashable element
   and "".join on an element that is no str. *)
EscapeOutput(x) ==
    IF x.t = "str" THEN Ok(EscapeText(x.v))
    ELSE IF IsSeq(x) /\ \A i \in 1..Len(x.v) : x.v[i].t = "str"
         THEN Ok(Join([i \in 1..Len(x.v) |-> EscapeLetter(x.v[i].v)]))
    ELSE Raise("TypeError")

-----------------------------------------------------------------------------
(* _output_code, inlinecode, itemize *)

(* the file beside the yml file: [st |-> "ok", code |-> its text],
   "undecodable" under the configured encoding, or "missing"; the empty
   name is the directory itself, which open() refuses *)
FileOf(filename) ==
    IF filename # "" /\ filename \in DOMAIN files THEN files[filename]
    ELSE [st |-> "missing", code |-> ""]

(* highlight(code, lexer, LatexFormatter(linenos=True)): pygments' output,
   a text that depends on the file name (the lexer) and on the code *)
Highlight(filename, code) ==
    "\\begin{Verbatim}[" \o filename \o "]" \o code \o "\\end{Verbatim}"

OutputCode(filename) ==
    LET f == FileOf(filename)
    IN  IF f.st = "missing" THEN Raise("IOError")
        ELSE IF f.st = "undecodable" THEN Raise("UnicodeDecodeError")
        ELSE IF pygments THEN Ok("\n" \o Highlight(filename, f.code) \o "\n")
        ELSE Ok("\n\t\\begin{lstlisting}\n" \o f.code \o "\n\t\\end{lstlisting}")

InlineCode(t) ==
    LET fields == Split(t)
    IN  IF Len(fields) < 2 THEN Raise("IndexError")
        ELSE LET code == OutputCode(fields[2])
             IN  IF ~code.ok THEN code
                 ELSE Ok("\n\\vspace{0.5em}" \o code.out \o "\\vspace{0.5em}")

RECURSIVE Itemize(_)
RECURSIVE ItemizeItems(_, _, _)
RECURSIVE ItemizeNested(_, _, _)

(* the body of "for i in item", run n more times with out = acc: the
   bullet of item[0][0], then itemize(item[0][1]) *)
ItemizeNested(item, n, acc) ==
    IF n = 0 THEN Ok(acc)
    ELSE LET first == Index(item, 0)
         IN  IF IndexOutcome(first, 0) # "value"
             THEN Raise(IndexOutcome(first, 0))
             ELSE LET label == EscapeOutput(Index(first, 0))
                  IN  IF ~label.ok THEN label
                      ELSE IF IndexOutcome(first, 1) # "value"
                           THEN Raise(IndexOutcome(first, 1))
                      ELSE LET sub == Itemize(Index(first, 1))
                           IN  IF ~sub.ok THEN sub
                               ELSE ItemizeNested(item, n - 1,
                                        acc \o "\n\t\\item " \o label.out \o sub.out)

(* the body of "for item in items" from the k-th item on, with out = acc *)
ItemizeItems(seq, k, acc) ==
    IF k > Len(seq) THEN Ok(acc)
    ELSE LET item == seq[k]
             step ==
                 IF item.t = "list" THEN ItemizeNested(item, Len(item.v), acc)
                 ELSE IF item.t # "str" THEN Raise("AttributeError")
                 ELSE IF StartsWith(item.v, "include")
                      THEN LET code == InlineCode(item.v)
                           IN  IF code.ok THEN Ok(acc \o code.out) ELSE code
                 ELSE Ok(acc \o "\n\t\\item " \o EscapeText(item.v))
         IN  IF ~step.ok THEN step ELSE ItemizeItems(seq, k + 1, step.out)

Itemize(its) ==
    LET opening == "\n\t\\begin{itemize}"
                   \o (IF list_pause THEN "[<+-| alert@+>]" ELSE "")
    IN  IF ~Iterable(its) THEN Raise("TypeError")
        ELSE LET body == ItemizeItems(Elements(its), 1, opening)
             IN  IF ~body.ok THEN body
                 ELSE Ok(body.out \o "\n\t\\end{itemize}")

-----------------------------------------------------------------------------
(* The environment of a render, and the contents given to itemize and frame *)

MaxItems == 2

RECURSIVE ListsOf(_, _)
ListsOf(elems, n) ==
    IF n = 0 THEN {<<>>}
    ELSE LET shorter == ListsOf(elems, n - 1)
         IN  shorter \cup {Append(l, e) : l \in shorter, e \in elems}

FileNames == {"a.py"}

FileStates ==
    {[st |-> "ok", code |-> "x = 1"],
     [st |-> "undecodable", code |-> ""],
     [st |-> "missing", code |-> ""]}

InitEnv ==
    /\ list_pause \in BOOLEAN
    /\ pygments \in BOOLEAN
    /\ files \in [FileNames -> FileStates]

(* string items: a bullet, two bullets that begin with the letters of
   "include", and an inline code item *)
PlainItems ==
    {Str("a_b"), Str("includes"), Str("included a.py"), Str("include a.py")}

(* the children of a nested item: bullets, and one deeper nested item *)
Children ==
    {List(l) : l \in ListsOf({Str("c1"), Str("c2")}, MaxItems)}
    \cup {List(<<List(<<Pair(Str("Q"), List(<<Str("c1")>>))>>)>>)}

(* a mapping entry as the loader gives it (a pair) and as a two-element list *)
LabelledPairs ==
    {Pair(Str("P"), c) : c \in Children}
    \cup {List(<<Str("P"), c>>) : c \in Children}

SiblingPairs ==
    {Pair(Str("P"), List(<<Str("c1")>>)), Pair(Str("R"), List(<<Str("c2")>>))}

(* nested items: a list wrapping one labelled pair, wrapping two, or nothing *)
NestedItems ==
    {List(<<p>>) : p \in LabelledPairs}
    \cup {List(<<pq[1], pq[2]>>) :
              pq \in {x \in SiblingPairs \X SiblingPairs : x[1] # x[2]}}
    \cup {List(<<>>)}

(* elements that are neither a string nor a list *)
OtherItems == {None, PyInt(5), Pair(Str("k"), Str("v"))}

ItemizeInputs ==
    {List(l) : l \in ListsOf(PlainItems \cup NestedItems \cup OtherItems, MaxItems)}
    \cup {None, Str("ab"), PyInt(7)}

-----------------------------------------------------------------------------
(* SpecItemize: one call of itemize *)

InitItemize ==
    /\ pc = "itemize"
    /\ InitEnv
    /\ items \in ItemizeInputs
    /\ title = "" /\ dictOrder = <<>> /\ result = None
    /\ IdleEsc /\ IdleMain /\ stderr = ""

ItemizeCall ==
    /\ pc = "itemize"
    /\ result' = Itemize(items)
    /\ pc' = "itemized"
    /\ UNCHANGED <<items, title, dictOrder, envVars, escVars, mainVars, stderr>>

NextItemize == ItemizeCall

SpecItemize == InitItemize /\ [][NextItemize]_vars

Bullet(s) == "\n\t\\item " \o s

ListOpening == "\n\t\\begin{itemize}" \o (IF list_pause THEN "[<+-| alert@+>]" ELSE "")

ListClosing == "\n\t\\end{itemize}"

IsBulletText(x) == x.t = "str" /\ ~StartsWith(x.v, "include")

IsLabelledPair(x) == IsSeq(x) /\ Len(x.v) = 2 /\ x.v[1].t = "str"

(* a non-empty list wrapping [label, children], with whatever number of
   elements, whose children are bullets or such lists again *)
RECURSIVE IsBulletTree(_)
IsBulletTree(x) ==
    /\ x.t = "list"
    /\ \A i \in 1..Len(x.v) :
          \/ IsBulletText(x.v[i])
          \/ /\ x.v[i].t = "list"
             /\ x.v[i].v # <<>>
             /\ \A j \in 1..Len(x.v[i].v) : IsLabelledPair(x.v[i].v[j])
             /\ IsBulletTree(x.v[i].v[1].v[2])

(* the block the documentation describes: one bullet per string and, per
   nested item, one bullet of the label followed by the block of children *)
RECURSIVE OneBulletPerItem(_)
OneBulletPerItem(x) ==
    ListOpening
    \o Join([i \in 1..Len(x.v) |->
            IF x.v[i].t = "str" THEN Bullet(EscapeText(x.v[i].v))
            ELSE Bullet(EscapeText(x.v[i].v[1].v[1].v))
                 \o OneBulletPerItem(x.v[i].v[1].v[2])])
    \o ListClosing

HasWideNestedItem(x) ==
    \E i \in 1..Len(x.v) : x.v[i].t = "list" /\ Len(x.v[i].v) > 1

(* C5: an item that is a non-empty list wrapping [label, children] gives
   exactly one bullet of the escaped label followed at once by the block of
   its children, whatever the number of elements of the wrapping list. *)
C5_NestedItemOneBullet ==
    (pc = "itemized" /\ IsBulletTree(items))
        => (result.ok /\ result.out = OneBulletPerItem(items))

(* C5 restricted to wrapping lists of one element: the case the code
   renders as documented. *)
C5_SingleWrapOneBullet ==
    (pc = "itemized" /\ IsBulletTree(items) /\ ~HasWideNestedItem(items))
        => (result.ok /\ result.out = OneBulletPerItem(items))

IsStrList(x) == x.t = "list" /\ \A i \in 1..Len(x.v) : x.v[i].t = "str"

(* the block of a list of strings when the prefix "include " (with the
   space) decides: inline code for it, one bullet for any other string *)
RECURSIVE IncludeSpaceItems(_, _, _)
IncludeSpaceItems(seq, k, acc) ==
    IF k > Len(seq) THEN Ok(acc \o ListClosing)
    ELSE IF StartsWith(seq[k].v, "include ")
         THEN LET code == InlineCode(seq[k].v)
              IN  IF code.ok THEN IncludeSpaceItems(seq, k + 1, acc \o code.out)
                  ELSE code
         ELSE IncludeSpaceItems(seq, k + 1, acc \o Bullet(EscapeText(seq[k].v)))

(* C6: in a list of strings, an item beginning with "include " is rendered
   as inline code and every other item, one beginning with "included" or
   "includes" too, as exactly one bullet of its escaped text, in order. *)
C6_IncludeSpaceDecides ==
    (pc = "itemized" /\ IsStrList(items))
        => result = IncludeSpaceItems(items.v, 1, ListOpening)

-----------------------------------------------------------------------------
(* code, image, frame *)

FrameOpening == "\n\\begin{frame}[fragile,t]"

(* the frame of code(title) around the file named filename *)
CodeFrame(filename) ==
    LET code == OutputCode(filename)
    IN  IF ~code.ok THEN code
        ELSE Ok(FrameOpening \o "\n\t\\frametitle{Code: \"" \o filename \o "\"}"
                \o code.out \o "\n\\end{frame}")

Code(t) ==
    LET fields == Split(t)
    IN  IF Len(fields) < 2 THEN Raise("IndexError") ELSE CodeFrame(fields[2])

(* dict(options): "ok", or the exception of the first element that is no
   sequence of two elements *)
RECURSIVE DictOutcome(_, _)
DictOutcome(seq, k) ==
    IF k > Len(seq) THEN "ok"
    ELSE IF ~Iterable(seq[k]) THEN "TypeError"
    ELSE IF Len(Elements(seq[k])) # 2 THEN "ValueError"
    ELSE IF Index(seq[k], 0).t = "list" THEN "TypeError"
    ELSE DictOutcome(seq, k + 1)

(* dict(options).items(): one (key, value) per distinct key, its value the
   one given last.  The order is the order of the hash table, not the input
   order: the keys named by dictOrder in that order, then any other key. *)
DictItems(seq) ==
    LET key(i)   == Index(seq[i], 0)
        val(i)   == Index(seq[i], 1)
        last(i)  == \A j \in (i + 1)..Len(seq) : key(j) # key(i)
        keys     == {key(i) : i \in 1..Len(seq)}
        valueOf(k) == val(CHOOSE i \in 1..Len(seq) : key(i) = k /\ last(i))
        hashed   == SelectSeq(dictOrder, LAMBDA n : Str(n) \in keys)
        others   == SelectSeq([i \in 1..Len(seq) |-> i],
                        LAMBDA i : /\ last(i)
                                   /\ \A n \in 1..Len(dictOrder) :
                                          key(i) # Str(dictOrder[n]))
    IN  [i \in 1..Len(hashed) |-> <<Str(hashed[i]), valueOf(Str(hashed[i]))>>]
        \o [i \in 1..Len(others) |-> <<key(others[i]), val(others[i])>>]

(* the frame of image() with the option string opts around the file path *)
ImageFrame(opts, path) ==
    "\n\\frame[shrink] {" \o "\n\t\\pgfimage[" \o opts \o "]{" \o path \o "}" \o "\n}"

Image(t, options) ==
    LET opts   == IF Truthy(options) THEN options ELSE Str("")
        seq    == Elements(opts)
        fields == Split(t)
    IN  IF ~Iterable(opts) THEN Raise("TypeError")
        ELSE IF DictOutcome(seq, 1) # "ok" THEN Raise(DictOutcome(seq, 1))
        ELSE IF Len(fields) < 2 THEN Raise("IndexError")
        ELSE LET its == DictItems(seq)
             IN  Ok(ImageFrame(
                        JoinWith(",", [i \in 1..Len(its) |->
                            PyStr(its[i][1]) \o "=" \o PyStr(its[i][2])]),
                        fields[2]))

(* frame with the test of the title done on "include " with the space *)
FrameIncludeSpace(t, its) ==
    IF StartsWith(t, "include ") THEN Code(t)
    ELSE IF StartsWith(t, "image") THEN Image(t, its)
    ELSE LET list == Itemize(its)
         IN  IF list.ok
             THEN Ok(FrameOpening \o "\n\t\\frametitle{" \o EscapeText(t) \o "}"
                     \o list.out \o "\n\\end{frame}")
             ELSE IF list.exc = "TypeError"
             THEN [list EXCEPT !.err = "ERR - ofending text " \o ReprStr(t)
                                       \o " " \o Repr(its) \o "\n"]
             ELSE list

Frame(t, its) ==
    IF StartsWith(t, "include") THEN Code(t)
    ELSE IF StartsWith(t, "image") THEN Image(t, its)
    ELSE LET list == Itemize(its)
         IN  IF list.ok
             THEN Ok(FrameOpening \o "\n\t\\frametitle{" \o EscapeText(t) \o "}"
                     \o list.out \o "\n\\end{frame}")
             ELSE IF list.exc = "TypeError"
             THEN [list EXCEPT !.err = "ERR - ofending text " \o ReprStr(t)
                                       \o " " \o Repr(its) \o "\n"]
             ELSE list

-----------------------------------------------------------------------------
(* SpecFrame: one call of frame *)

FrameTitles ==
    {"Plan_A", "include a.py", "include  a.py", "includes",
     "image d.png", "image  d.png", "image"}

OptionKeys == {"width", "height"}

OptionPairs ==
    {Pair(Str("width"), Str("5cm")), Pair(Str("height"), Str("3cm")),
     Pair(Str("width"), Str("3cm"))}

FrameItems ==
    {Str("a_b"), Str("include a.py"),
     List(<<Pair(Str("P"), List(<<Str("c1"), Str("c2")>>))>>), None}

(* what a frame may carry: a list of items, an option mapping (the loader
   gives a list of pairs), nothing, a bare string, a number *)
FrameContents ==
    {List(l) : l \in ListsOf(FrameItems, MaxItems)}
    \cup {List(l) : l \in {m \in ListsOf(OptionPairs, MaxItems) :
                               \A i, j \in 1..Len(m) : i # j => m[i] # m[j]}}
    \cup {None, Str("ab"), PyInt(7)}

DictOrders == {<<"width", "height">>, <<"height", "width">>}

InitFrame ==
    /\ pc = "frame"
    /\ InitEnv
    /\ title \in FrameTitles
    /\ items \in FrameContents
    /\ dictOrder \in DictOrders
    /\ result = None
    /\ IdleEsc /\ IdleMain /\ stderr = ""

FrameCall ==
    /\ pc = "frame"
    /\ result' = [Frame(title, items) EXCEPT !.err = ""]
    /\ stderr' = stderr \o Frame(title, items).err
    /\ pc' = "framed"
    /\ UNCHANGED <<items, title, dictOrder, envVars, escVars, mainVars>>

NextFrame == FrameCall

SpecFrame == InitFrame /\ [][NextFrame]_vars

IsWhitespace(c) == c \in {" ", "\t", "\n", "\r", "\f"}

(* the whitespace-separated tokens of s: runs of whitespace separate, and
   no token is empty *)
RECURSIVE TokensFrom(_, _, _)
TokensFrom(s, i, token) ==
    LET done == IF token = "" THEN <<>> ELSE <<token>>
    IN  IF i > Len(s) THEN done
        ELSE IF IsWhitespace(Char(s, i)) THEN done \o TokensFrom(s, i + 1, "")
        ELSE TokensFrom(s, i + 1, token \o Char(s, i))

Tokens(s) == TokensFrom(s, 1, "")

(* the bullet frame: the opening, the escaped title as heading, the block
   of itemize, the closing; or the exception of itemize *)
BulletFrame ==
    LET list == Itemize(items)
    IN  IF list.ok
        THEN Ok(FrameOpening \o "\n\t\\frametitle{" \o EscapeText(title) \o "}"
                \o list.out \o "\n\\end{frame}")
        ELSE list

(* the variant the prefix of the title selects, the file of a code frame
   being the second of the fields Fields gives for the title *)
VariantOfPrefix(Fields(_)) ==
    IF StartsWith(title, "include")
    THEN IF Len(Fields(title)) < 2 THEN ~result.ok
         ELSE result = CodeFrame(Fields(title)[2])
    ELSE IF StartsWith(title, "image") THEN result = Image(title, items)
    ELSE result = BulletFrame

(* C7 as stated: the variant depends on the prefix of the title alone; a
   code frame ignores the content and takes the second whitespace-separated
   token of the title as file name. *)
C7_VariantByPrefixWhitespaceToken ==
    pc = "framed" => VariantOfPrefix(Tokens)

(* C7 amended: the variant depends on the prefix of the title alone; a
   code frame ignores the content and takes as file name the second field
   of the title split at each single space (empty when two spaces follow
   the keyword). *)
C7_VariantByPrefixSpaceField ==
    pc = "framed" => VariantOfPrefix(Split)

(* C7 witness: a code frame has been rendered for a title beginning with
   include although the frame carries items. *)
C7_Witness ==
    /\ pc = "framed"
    /\ title = "include a.py"
    /\ items = List(<<Str("a_b")>>)
    /\ result.ok

IsOptionMapping(x) ==
    x.t = "list" /\ \A i \in 1..Len(x.v) : x.v[i].t = "tuple" /\ Len(x.v[i].v) = 2

(* the entries of the mapping as key=value, in input order, comma-joined *)
OptionsInInputOrder(x) ==
    JoinWith(",", [i \in 1..Len(x.v) |-> PyStr(x.v[i].v[1]) \o "=" \o PyStr(x.v[i].v[2])])

(* C8: a frame whose title begins with image gives one image block; its
   path is the second whitespace-separated token of the title, its option
   string has one key=value entry per entry of the mapping, in input order,
   and is empty when the content is empty or absent. *)
C8_ImageOptionsInInputOrder ==
    (/\ pc = "framed"
     /\ StartsWith(title, "image")
     /\ Len(Tokens(title)) >= 2
     /\ (IsOptionMapping(items) \/ items = None))
        => /\ result.ok
           /\ result.out =
                ImageFrame(IF items = None THEN "" ELSE OptionsInInputOrder(items),
                           Tokens(title)[2])

IsListItemSeq(x) ==
    x.t = "list" /\ \A i \in 1..Len(x.v) : x.v[i].t \in {"str", "list"}

(* C10: for a bullet frame, a content that is no sequence of list items is
   fatal: frame reports the title and the content on the diagnostic stream
   and raises, and never returns a rendered frame. *)
C10_MalformedContentIsFatal ==
    (/\ pc = "framed"
     /\ ~StartsWith(title, "include")
     /\ ~StartsWith(title, "image")
     /\ ~IsListItemSeq(items))
        => /\ ~result.ok
           /\ stderr = "ERR - ofending text " \o ReprStr(title) \o " "
                       \o Repr(items) \o "\n"

-----------------------------------------------------------------------------
(* section, subsection, header, footer *)

Section(t) ==
    LET e == EscapeOutput(t)
    IN  IF e.ok THEN Ok("\n\n\\section{" \o e.out \o "}") ELSE e

Subsection(t) ==
    LET e == EscapeOutput(t)
    IN  IF e.ok THEN Ok("\n\\subsection{" \o e.out \o "}") ELSE e

(* metas.get(key, default), metas a mapping from key to value *)
Get(m, key, default) == IF key \in DOMAIN m THEN m[key] ELSE default

(* LatexFormatter(style=...).get_style_defs(): pygments' style definitions,
   a text that depends on the style *)
StyleDefs(style) == "\\makeatletter % pygments style " \o PyStr(style) \o "\n\\makeatother"

Header(m) ==
    "\\documentclass[slidestop,red]{beamer}"
    \o "\n\\usepackage[utf8]{inputenc}"
    \o (IF Truthy(Get(m, "tex_babel", None))
        THEN "\n\\usepackage[" \o PyStr(m["tex_babel"]) \o "]{babel}" ELSE "")
    \o (IF Truthy(Get(m, "tex_fontenc", None))
        THEN "\n\\usepackage[" \o PyStr(m["tex_fontenc"]) \o "]{fontenc}" ELSE "")
    \o "\n\\usepackage{fancyvrb,color}\n\n"
    \o (IF pygments THEN StyleDefs(Get(m, "highlight_style", Str("default")))
        ELSE "\\usepackage{listings}\n" \o "\\lstset{numbers=left}")
    \o "\n\n\\usetheme{Antibes}"
    \o "\n\\setbeamertemplate{footline}[frame number]"
    \o "\n\\usecolortheme{lily}"
    \o "\n\\beamertemplateshadingbackground{blue!5}{yellow!10}"
    \o "\n\n\\title"
    \o (IF "short_title" \in DOMAIN m
        THEN "[" \o PyStr(m["short_title"]) \o "]" ELSE "")
    \o "{" \o PyStr(Get(m, "title", Str("Example Presentation"))) \o "}"
    \o "\n\\author{" \o PyStr(Get(m, "author", Str("Arthur Koziel"))) \o "}"
    \o "\n\\institute{" \o PyStr(Get(m, "institute", Str(""))) \o "}"
    \o "\n\\date{" \o PyStr(Get(m, "date", Str("\\today"))) \o "}"
    \o "\n\n\\begin{document}"
    \o "\n\n\\frame{\\titlepage}"
    \o (IF Truthy(Get(m, "outline", Bool(TRUE)))
        THEN LET name == PyStr(Get(m, "outline_name", Str("Outline")))
             IN  "\n\n\\section*{" \o name \o "}"
                 \o "\n\\frame {"
                 \o "\n\t\\frametitle{" \o name \o "}"
                 \o "\n\t\\tableofcontents"
                 \o "\n}"
                 \o "\n\n\\AtBeginSection[] {"
                 \o "\n\t\\frame{"
                 \o "\n\t\t\\frametitle{" \o name \o "}"
                 \o "\n\t\t\\tableofcontents[currentsection]"
                 \o "\n\t}"
                 \o "\n}"
        ELSE "")

Footer == "\n\\end{document}"

(* dict(pairs) with str keys, as the mapping header reads with get *)
DictOf(seq) ==
    [k \in {Index(seq[i], 0).v : i \in 1..Len(seq)} |->
        Index(seq[CHOOSE i \in 1..Len(seq) :
                    /\ Index(seq[i], 0).v = k
                    /\ \A j \in (i + 1)..Len(seq) : Index(seq[j], 0).v # k], 1)]

(* "a, b = x": "ok", or the exception of the unpacking *)
UnpackOutcome(x) ==
    IF ~Iterable(x) THEN "TypeError"
    ELSE IF Len(Elements(x)) # 2 THEN "ValueError"
    ELSE "ok"

(* out.encode('utf-8'): the texts of this model hold ASCII characters only,
   whose UTF-8 encoding is the character itself *)
EncodeUtf8(s) == s

(* parser.print_help() *)
HelpText == "Usage: yml2tex source_file [options]\n"

(* parser.error(msg) writes the usage and the message to sys.stderr *)
ErrorText(msg) == "Usage: yml2tex source_file [options]\n\nyml2tex: error: " \o msg \o "\n"

-----------------------------------------------------------------------------
(* The documents the loader may give *)

MaxNodes == 4

DocFrames ==
    {Pair(Str("Plan_A"), List(<<Str("a_b")>>)),
     Pair(Str("include a.py"), None),
     Pair(Str("image d.png"), List(<<Pair(Str("width"), Str("5cm"))>>)),
     Pair(Str("Bad"), None)}

SectionTitles == {"One", "Two&"}

SubsectionTitles == {"Sub_1"}

(* the subsections of at most n nodes (the subsection and its frames) *)
SubsectionsUpTo(n) ==
    {Pair(Str(t), List(fl)) : t \in SubsectionTitles, fl \in ListsOf(DocFrames, n - 1)}

RECURSIVE SubsectionLists(_)
SubsectionLists(n) ==
    {<<>>} \cup UNION {{<<sub>> \o rest : sub \in SubsectionsUpTo(k),
                                          rest \in SubsectionLists(n - k)} : k \in 1..n}

SectionsUpTo(n) ==
    {Pair(Str(t), List(sl)) : t \in SectionTitles, sl \in SubsectionLists(n - 1)}

RECURSIVE SectionLists(_)
SectionLists(n) ==
    {<<>>} \cup UNION {{<<sec>> \o rest : sec \in SectionsUpTo(k),
                                          rest \in SectionLists(n - k)} : k \in 1..n}

MetasEntries ==
    {Pair(Str("metas"), List(<<>>)),
     Pair(Str("metas"), List(<<Pair(Str("outline"), Bool(FALSE)),
                               Pair(Str("title"), Str("Talk"))>>))}

(* two sections of one subsection of one frame each *)
TwoSectionLists ==
    {<<Pair(Str("One"), List(<<Pair(Str("Sub_1"), List(<<f>>))>>)),
       Pair(Str(t), List(<<Pair(Str("Sub_2"), List(<<g>>))>>))>> :
        f \in DocFrames, g \in DocFrames, t \in SectionTitles}

(* documents of another shape: a section or a subsection without content,
   a metas entry without content, a bare text *)
MalformedDocuments ==
    {List(<<Pair(Str("One"), None)>>),
     List(<<Pair(Str("One"), List(<<Pair(Str("Sub_1"), None)>>))>>),
     List(<<Pair(Str("metas"), None)>>),
     Str("text")}

Documents ==
    LET sections == SectionLists(MaxNodes) \cup TwoSectionLists
    IN  {List(sl) : sl \in sections}
        \cup {List(<<m>> \o sl) : m \in MetasEntries, sl \in sections}
        \cup MalformedDocuments

(* open(source_file) fails *)
NoSuchFile == [t |-> "IOError", v |-> <<>>]

(* what yaml.load(open(source_file)) may give: no file, an empty file
   (None), a document *)
LoadOutcomes == {NoSuchFile, None} \cup Documents

MainArgvs == {<<>>, <<"-P">>, <<"talk.yml">>, <<"-P", "talk.yml">>}

-----------------------------------------------------------------------------
(* SpecMain: a run of the program, "print main()" *)

otherVars == <<pygments, files, escVars, callVars>>

(* the iterator of a loop not entered yet *)
NoIter == [seq |-> <<>>, idx |-> 1]

IterOf(x) == [seq |-> Elements(x), idx |-> 1]

HasNext(it) == it.idx <= Len(it.seq)

Current(it) == it.seq[it.idx]

Advance(it) == [it EXCEPT !.idx = it.idx + 1]

InitMain ==
    /\ pc = "main"
    /\ argv \in MainArgvs
    /\ list_pause = TRUE
    /\ pygments \in BOOLEAN
    /\ files \in [FileNames -> FileStates]
    /\ loaded = None /\ doc = None /\ metas = <<>> /\ out = ""
    /\ secIter = NoIter /\ subIter = NoIter /\ frmIter = NoIter
    /\ stdout = "" /\ stderr = "" /\ exc = ""
    /\ IdleEsc /\ IdleCall

(* an exception leaves main: nothing is returned, nothing printed; report is
   what the failing call wrote to sys.stderr before raising (the traceback
   the interpreter adds is left out) *)
Fail(e, report) ==
    /\ pc' = "raised"
    /\ exc' = e
    /\ stderr' = stderr \o report
    /\ UNCHANGED <<list_pause, argv, loaded, doc, metas, out, secIter, subIter,
                   frmIter, stdout, otherVars>>

(* sys.exit(status) *)
Exit(status) ==
    /\ pc' = "exited"
    /\ exc' = status

(* the arguments that are no option *)
Positional(av) == SelectSeq(av, LAMBDA a : ~StartsWith(a, "-"))

(* global_options, args = parser.parse_args(sys.argv[1:]) *)
ParseArgs ==
    /\ pc = "main"
    /\ list_pause' = (\A i \in 1..Len(argv) : argv[i] # "-P")
    /\ IF Positional(argv) = <<>>
       THEN /\ stdout' = stdout \o HelpText
            /\ Exit("SystemExit(1)")
       ELSE /\ pc' = "load"
            /\ UNCHANGED <<stdout, exc>>
    /\ UNCHANGED <<argv, loaded, doc, metas, out, secIter, subIter, frmIter,
                   stderr, otherVars>>

(* doc = yaml.load(open(source_file), Loader=PairLoader) *)
Load ==
    /\ pc = "load"
    /\ \E d \in LoadOutcomes :
          IF d = NoSuchFile
          THEN /\ stderr' = stderr \o ErrorText("file does not exist")
               /\ Exit("SystemExit(2)")
               /\ UNCHANGED <<loaded, doc>>
          ELSE /\ loaded' = d
               /\ doc' = d
               /\ pc' = "empty_check"
               /\ UNCHANGED <<stderr, exc>>
    /\ UNCHANGED <<list_pause, argv, metas, out, secIter, subIter, frmIter,
                   stdout, otherVars>>

(* "if doc is None" in place of "if not doc" *)
EmptyCheckNoneOnly ==
    /\ pc = "empty_check"
    /\ IF doc = None
       THEN Exit("SystemExit(1)")
       ELSE pc' = "metas" /\ UNCHANGED exc
    /\ UNCHANGED <<list_pause, argv, loaded, doc, metas, out, secIter, subIter,
                   frmIter, stdout, stderr, otherVars>>

(* if not doc: sys.exit(1) *)
EmptyCheck ==
    /\ pc = "empty_check"
    /\ IF ~Truthy(doc)
       THEN Exit("SystemExit(1)")
       ELSE pc' = "metas" /\ UNCHANGED exc
    /\ UNCHANGED <<list_pause, argv, loaded, doc, metas, out, secIter, subIter,
                   frmIter, stdout, stderr, otherVars>>

(* what "metas = {}; if doc[0][0] == 'metas': ..." raises, or "ok" *)
MetasOutcome(d) ==
    IF IndexOutcome(d, 0) # "value" THEN IndexOutcome(d, 0)
    ELSE IF IndexOutcome(Index(d, 0), 0) # "value" THEN IndexOutcome(Index(d, 0), 0)
    ELSE IF Index(Index(d, 0), 0) # Str("metas") THEN "ok"
    ELSE IF IndexOutcome(Index(d, 0), 1) # "value" THEN IndexOutcome(Index(d, 0), 1)
    ELSE IF ~Iterable(Index(Index(d, 0), 1)) THEN "TypeError"
    ELSE IF DictOutcome(Elements(Index(Index(d, 0), 1)), 1) # "ok"
         THEN DictOutcome(Elements(Index(Index(d, 0), 1)), 1)
    ELSE IF d.t # "list" THEN "TypeError"
    ELSE "ok"

HasMetas(d) == Index(Index(d, 0), 0) = Str("metas")

(* the metas step without "del doc[0]" *)
MetasStepKeepsEntry ==
    /\ pc = "metas"
    /\ IF MetasOutcome(doc) # "ok" THEN Fail(MetasOutcome(doc), "")
       ELSE /\ metas' = IF HasMetas(doc)
                        THEN DictOf(Elements(Index(Index(doc, 0), 1))) ELSE <<>>
            /\ pc' = "header"
            /\ UNCHANGED <<list_pause, argv, loaded, doc, out, secIter, subIter, frmIter,
                           stdout, stderr, exc, otherVars>>

(* metas = {}; if doc[0][0] == 'metas': metas = dict(doc[0][1]); del doc[0] *)
MetasStep ==
    /\ pc = "metas"
    /\ IF MetasOutcome(doc) # "ok" THEN Fail(MetasOutcome(doc), "")
       ELSE /\ IF HasMetas(doc)
               THEN /\ metas' = DictOf(Elements(Index(Index(doc, 0), 1)))
                    /\ doc' = List(Tail(doc.v))
               ELSE /\ metas' = <<>>
                    /\ doc' = doc
            /\ pc' = "header"
            /\ UNCHANGED <<list_pause, argv, loaded, out, secIter, subIter, frmIter,
                           stdout, stderr, exc, otherVars>>

(* the header written to standard output as soon as it is built *)
HeaderStepStreaming ==
    /\ pc = "header"
    /\ IF ~Iterable(doc) THEN Fail("TypeError", "")
       ELSE /\ out' = Header(metas)
            /\ stdout' = stdout \o Header(metas)
            /\ secIter' = IterOf(doc)
            /\ pc' = "sections"
            /\ UNCHANGED <<list_pause, argv, loaded, doc, metas, subIter, frmIter,
                           stderr, exc, otherVars>>

(* out = header(metas), and the entry of "for sections, doc in doc" *)
HeaderStep ==
    /\ pc = "header"
    /\ IF ~Iterable(doc) THEN Fail("TypeError", "")
       ELSE /\ out' = Header(metas)
            /\ secIter' = IterOf(doc)
            /\ pc' = "sections"
            /\ UNCHANGED <<list_pause, argv, loaded, doc, metas, subIter, frmIter,
                           stdout, stderr, exc, otherVars>>

(* for sections, doc in doc: out += section(sections), and the entry of
   "for subsections, doc in doc" over the doc just bound *)
SectionNext ==
    /\ pc = "sections"
    /\ HasNext(secIter)
    /\ LET entry == Current(secIter)
       IN  IF UnpackOutcome(entry) # "ok" THEN Fail(UnpackOutcome(entry), "")
           ELSE LET head == Section(Index(entry, 0))
                    body == Index(entry, 1)
                IN  IF ~head.ok THEN Fail(head.exc, "")
                    ELSE IF ~Iterable(body) THEN Fail("TypeError", "")
                    ELSE /\ out' = out \o head.out
                         /\ doc' = body
                         /\ secIter' = Advance(secIter)
                         /\ subIter' = IterOf(body)
                         /\ pc' = "subsections"
                         /\ UNCHANGED <<list_pause, argv, loaded, metas, frmIter,
                                        stdout, stderr, exc, otherVars>>

(* for subsections, doc in doc: out += subsection(subsections), and the
   entry of "for frames, items in doc" *)
SubsectionNext ==
    /\ pc = "subsections"
    /\ HasNext(subIter)
    /\ LET entry == Current(subIter)
       IN  IF UnpackOutcome(entry) # "ok" THEN Fail(UnpackOutcome(entry), "")
           ELSE LET head == Subsection(Index(entry, 0))
                    body == Index(entry, 1)
                IN  IF ~head.ok THEN Fail(head.exc, "")
                    ELSE IF ~Iterable(body) THEN Fail("TypeError", "")
                    ELSE /\ out' = out \o head.out
                         /\ doc' = body
                         /\ subIter' = Advance(subIter)
                         /\ frmIter' = IterOf(body)
                         /\ pc' = "frames"
                         /\ UNCHANGED <<list_pause, argv, loaded, metas, secIter,
                                        stdout, stderr, exc, otherVars>>

(* frame(frames, items) for a title of any type: startswith needs a str *)
FrameOf(t, its) == IF t.t = "str" THEN Frame(t.v, its) ELSE Raise("AttributeError")

(* for frames, items in doc: out += frame(frames, items) *)
FrameNext ==
    /\ pc = "frames"
    /\ HasNext(frmIter)
    /\ LET entry == Current(frmIter)
       IN  IF UnpackOutcome(entry) # "ok" THEN Fail(UnpackOutcome(entry), "")
           ELSE LET block == FrameOf(Index(entry, 0), Index(entry, 1))
                IN  IF ~block.ok THEN Fail(block.exc, block.err)
                    ELSE /\ out' = out \o block.out
                         /\ frmIter' = Advance(frmIter)
                         /\ UNCHANGED <<pc, list_pause, argv, loaded, doc, metas, secIter,
                                        subIter, stdout, stderr, exc, otherVars>>

(* the frames of the subsection are exhausted *)
FramesDone ==
    /\ pc = "frames"
    /\ ~HasNext(frmIter)
    /\ pc' = "subsections"
    /\ UNCHANGED <<list_pause, argv, loaded, doc, metas, out, secIter, subIter,
                   frmIter, stdout, stderr, exc, otherVars>>

(* the subsections of the section are exhausted *)
SubsectionsDone ==
    /\ pc = "subsections"
    /\ ~HasNext(subIter)
    /\ pc' = "sections"
    /\ UNCHANGED <<list_pause, argv, loaded, doc, metas, out, secIter, subIter,
                   frmIter, stdout, stderr, exc, otherVars>>

(* the sections are exhausted: out += footer(); return out.encode('utf-8') *)
Return ==
    /\ pc = "sections"
    /\ ~HasNext(secIter)
    /\ out' = EncodeUtf8(out \o Footer)
    /\ pc' = "returned"
    /\ UNCHANGED <<list_pause, argv, loaded, doc, metas, secIter, subIter,
                   frmIter, stdout, stderr, exc, otherVars>>

(* print main() *)
PrintDocument ==
    /\ pc = "returned"
    /\ stdout' = stdout \o out \o "\n"
    /\ pc' = "done"
    /\ UNCHANGED <<list_pause, argv, loaded, doc, metas, out, secIter, subIter,
                   frmIter, stderr, exc, otherVars>>

NextMain ==
    \/ ParseArgs
    \/ Load
    \/ EmptyCheck
    \/ MetasStep
    \/ HeaderStep
    \/ SectionNext
    \/ SubsectionNext
    \/ FrameNext
    \/ FramesDone
    \/ SubsectionsDone
    \/ Return
    \/ PrintDocument

SpecMain == InitMain /\ [][NextMain]_vars

-----------------------------------------------------------------------------
(* What the documentation says of a run, stated on the document as loaded *)

Finished == pc \in {"done", "exited", "raised"}

IsMetasEntry(e) == IsSeq(e) /\ Len(e.v) = 2 /\ e.v[1] = Str("metas")

LeadsWithMetas(d) == d.t = "list" /\ d.v # <<>> /\ IsMetasEntry(d.v[1])

(* the (title, content) pairs of the sections: the document without its
   leading metas entry *)
SectionsOf(d) == IF LeadsWithMetas(d) THEN Tail(d.v) ELSE d.v

(* the metadata given to header *)
MetasOf(d) == IF LeadsWithMetas(d) THEN DictOf(d.v[1].v[2].v) ELSE <<>>

(* the blocks of a sequence of frames, of subsections, of sections, each
   heading before what it holds, in the order of the input *)
FrameBlocks(frames) ==
    Join([i \in 1..Len(frames) |-> FrameOf(frames[i].v[1], frames[i].v[2]).out])

SubsectionBlocks(subs) ==
    Join([i \in 1..Len(subs) |->
            Subsection(subs[i].v[1]).out \o FrameBlocks(subs[i].v[2].v)])

SectionBlocks(secs) ==
    Join([i \in 1..Len(secs) |->
            Section(secs[i].v[1]).out \o SubsectionBlocks(secs[i].v[2].v)])

(* C3 as stated: a document with zero sections, with or without the leading
   metas entry, is rendered without error as header(metas) followed at once
   by footer(). *)
C3_ZeroSectionsHeaderFooter ==
    (Finished /\ loaded.t = "list" /\ SectionsOf(loaded) = <<>>)
        => /\ pc = "done"
           /\ stdout = Header(MetasOf(loaded)) \o Footer \o "\n"

(* C3 amended: a document that holds the metas entry and zero sections is
   rendered without error as header(metas) followed at once by footer();
   a document that holds nothing at all ends the run with exit status 1 and
   no output. *)
C3_MetasOnlyHeaderFooter ==
    /\ (Finished /\ LeadsWithMetas(loaded) /\ SectionsOf(loaded) = <<>>
                 /\ Iterable(loaded.v[1].v[2]))
          => /\ pc = "done"
             /\ stdout = Header(MetasOf(loaded)) \o Footer \o "\n"
    /\ (Finished /\ loaded = List(<<>>))
          => /\ pc = "exited"
             /\ exc = "SystemExit(1)"
             /\ stdout = ""

(* C3 witness: a document of a metas entry with a title and no section has
   been rendered and printed. *)
C3_Witness ==
    /\ pc = "done"
    /\ LeadsWithMetas(loaded)
    /\ SectionsOf(loaded) = <<>>
    /\ "title" \in DOMAIN metas

(* C4: the output of a run that completes is the header, the blocks of the
   sections, subsections and frames in depth-first input order, each once,
   and the footer; a leading metas entry is rendered as no section. *)
C4_DepthFirstInputOrder ==
    pc = "done"
        => stdout = Header(MetasOf(loaded)) \o SectionBlocks(SectionsOf(loaded))
                    \o Footer \o "\n"

(* C4 witness: a document with a metas entry and two sections, one of them
   holding a frame, has been rendered and printed. *)
C4_Witness ==
    /\ pc = "done"
    /\ LeadsWithMetas(loaded)
    /\ Len(SectionsOf(loaded)) = 2
    /\ \E i \in 1..2 : \E j \in 1..Len(SectionsOf(loaded)[i].v[2].v) :
          SectionsOf(loaded)[i].v[2].v[j].v[2].v # <<>>

EndsWith(s, tail) ==
    Len(s) >= Len(tail) /\ SubSeq(s, Len(s) - Len(tail) + 1, Len(s)) = tail

(* C9: standard output holds no text of the document until every section,
   subsection and frame is rendered and the footer appended, and then the
   whole document; a run that fails ends with none of it written (the help
   text of a run without source file is no text of the document). *)
C9_AllOrNothing ==
    /\ stdout \notin {"", HelpText}
          => /\ pc = "done"
             /\ ~HasNext(secIter) /\ ~HasNext(subIter) /\ ~HasNext(frmIter)
             /\ stdout = out \o "\n"
             /\ EndsWith(out, Footer)
    /\ pc \in {"exited", "raised"} => stdout \in {"", HelpText}
    /\ stdout = HelpText => Positional(argv) = <<>>

(* C9 witness: a run has failed on a missing include file after the header,
   a section and a subsection were rendered, with nothing written. *)
C9_Witness ==
    /\ pc = "raised"
    /\ exc = "IOError"
    /\ out # ""
    /\ stdout = ""

====
